---------------------------- MODULE Spec2Model ----------------------------
(***************************************************************************)
(* Chat backend (backend/app.py, backend/ai_service.py, backend/models.py, *)
(* backend/database.py) as a state machine.                                *)
(*                                                                         *)
(* The store is the two tables of models.py.  Every HTTP request runs in   *)
(* a worker with a database session of its own (database.py get_db); a     *)
(* handler is cut into steps at its database round trips and at the        *)
(* provider call, which is where another request can commit in between.    *)
(* GET /api/sessions only reads the store; it appears as a route only.     *)
(* Text is a sequence of one-character strings, so that strip(), slicing   *)
(* and substring tests are computed and not assumed.                       *)
(***************************************************************************)
EXTENDS Integers, Sequences, FiniteSets, TLC

VARIABLES
    dialect,      \* database behind DATABASE_URL: "sqlite" (default) or "postgresql"
    configured,   \* chatbot_ai.model is not None
    sessions,     \* table chat_sessions: id -> [title, timestamp]
    msgs,         \* table messages, rows in primary-key order
    created,      \* number of chat_sessions rows ever inserted (clock, sequence)
    msgSeq,       \* number of messages rows ever inserted (sequence)
    nReq,         \* number of requests received
    pc,           \* per worker: position inside its handler
    req,          \* per worker: the handler's local variables
    resp,         \* per worker: the last HTTP response
    fmtIn,        \* argument of _format_chat_history
    fmtOut        \* its result

vars == <<dialect, configured, sessions, msgs, created, msgSeq, nReq, pc, req, resp,
          fmtIn, fmtOut>>

-----------------------------------------------------------------------------
(* Bounds *)

MaxRequests == 4         \* requests received (concurrent clients)
MaxSeqRequests == 3      \* requests received (one client, varied input)
MaxLongRequests == 13    \* requests received (one client, one long conversation)
MaxFmtLen == 3           \* length of the lists given to _format_chat_history

Workers == {"w1", "w2"}
Client == {"w1"}

-----------------------------------------------------------------------------
(* Text *)

Whitespace == {" ", "\t", "\n", "\r"}

Rep(c, n) == [i \in 1..n |-> c]

Take(s, n) == SubSeq(s, 1, IF Len(s) < n THEN Len(s) ELSE n)

Front(s) == SubSeq(s, 1, Len(s) - 1)

RECURSIVE LStrip(_)
LStrip(s) == IF s # <<>> /\ Head(s) \in Whitespace THEN LStrip(Tail(s)) ELSE s

RECURSIVE RStrip(_)
RStrip(s) == IF s # <<>> /\ s[Len(s)] \in Whitespace THEN RStrip(Front(s)) ELSE s

\* str.strip()
Strip(s) == RStrip(LStrip(s))

UpperCase == <<"A","B","C","D","E","F","G","H","I","J","K","L","M",
               "N","O","P","Q","R","S","T","U","V","W","X","Y","Z">>
LowerCase == <<"a","b","c","d","e","f","g","h","i","j","k","l","m",
               "n","o","p","q","r","s","t","u","v","w","x","y","z">>

LowerChar(c) ==
    IF \E i \in 1..26 : UpperCase[i] = c
    THEN LowerCase[CHOOSE i \in 1..26 : UpperCase[i] = c]
    ELSE c

\* str.lower()
Lower(s) == [i \in 1..Len(s) |-> LowerChar(s[i])]

\* sub in s
Contains(sub, s) ==
    \E i \in 0..(Len(s) - Len(sub)) : SubSeq(s, i + 1, i + Len(sub)) = sub


-----------------------------------------------------------------------------
(* The store: models.py on the database chosen in database.py *)

DefaultTitle == <<"N","e","w"," ","C","h","a","t">>

\* The database enforces messages.session_id -> chat_sessions.id.  SQLite does so
\* only under PRAGMA foreign_keys=ON, which database.py never issues.
ForeignKeysEnforced == dialect # "sqlite"

MaxOf(S) == CHOOSE x \in S : \A y \in S : y <= x

\* Column(Integer, primary_key=True, autoincrement=True): a sequence on
\* PostgreSQL; on SQLite a rowid alias without the AUTOINCREMENT keyword, that is
\* one more than the largest id in the table.
NextSessionId ==
    IF dialect = "sqlite"
    THEN (IF DOMAIN sessions = {} THEN 1 ELSE MaxOf(DOMAIN sessions) + 1)
    ELSE created + 1

NextMessageId ==
    IF dialect = "sqlite"
    THEN (IF msgs = <<>> THEN 1 ELSE msgs[Len(msgs)].id + 1)
    ELSE msgSeq + 1

\* ChatSession(title="New Chat"); timestamp default=datetime.utcnow
NewChatSession == [title |-> DefaultTitle, timestamp |-> created + 1]

InsertSession(tbl, id) ==
    [i \in DOMAIN tbl \cup {id} |-> IF i = id THEN NewChatSession ELSE tbl[i]]

\* Message(session_id=..., role=..., content=...)
Message(id, session_id, role, content) ==
    [id |-> id, session_id |-> session_id, role |-> role, content |-> content]

\* ChatSession.messages: the rows of messages whose session_id is sid.  The
\* relationship declares no order_by; the rows come in primary-key order, which
\* is the order both databases return for a table whose rows are only inserted
\* and deleted.
SessionMessages(sid) == SelectSeq(msgs, LAMBDA m : m.session_id = sid)

\* cascade="all, delete-orphan": deleting a session deletes its messages
DeleteCascade(sid) ==
    /\ sessions' = [i \in DOMAIN sessions \ {sid} |-> sessions[i]]
    /\ msgs' = SelectSeq(msgs, LAMBDA m : m.session_id # sid)

RowExists(id) == \E i \in 1..Len(msgs) : msgs[i].id = id

-----------------------------------------------------------------------------
(* Routing: the route table of app.py in registration order *)

PathParam == "{session_id}"

Routes == <<
    [method |-> "GET",    path |-> <<"api", "sessions">>,            handler |-> "get_sessions"],
    [method |-> "POST",   path |-> <<"api", "sessions">>,            handler |-> "create_session"],
    [method |-> "GET",    path |-> <<"api", "sessions", PathParam>>, handler |-> "get_session"],
    [method |-> "GET",    path |-> <<"api", "sessions", "latest">>,  handler |-> "get_latest_session"],
    [method |-> "POST",   path |-> <<"api", "chat">>,                handler |-> "chat"],
    [method |-> "DELETE", path |-> <<"api", "sessions", PathParam>>, handler |-> "delete_session"] >>

RouteMatches(route, method, path) ==
    /\ route.method = method
    /\ Len(route.path) = Len(path)
    /\ \A i \in 1..Len(path) : route.path[i] = PathParam \/ route.path[i] = path[i]

\* The first route that matches handles the request.
Dispatch(method, path) ==
    LET hits == {i \in 1..Len(Routes) : RouteMatches(Routes[i], method, path)}
    IN  IF hits = {} THEN "no_route"
        ELSE Routes[CHOOSE i \in hits : \A j \in hits : i <= j].handler

\* session_id: int -- a path segment is text; ids of the model have one digit
Digits == <<"1", "2", "3", "4", "5", "6", "7", "8", "9">>

IsIntText(seg) == \E i \in 1..Len(Digits) : Digits[i] = seg

IntOfText(seg) == CHOOSE i \in 1..Len(Digits) : Digits[i] = seg

SessionPath(sid) == <<"api", "sessions", Digits[sid]>>

-----------------------------------------------------------------------------
(* Workers *)

NoReq == [handler |-> "", n |-> 0, path |-> <<>>, session_id |-> 0, raw |-> <<>>,
          user_message |-> <<>>, user_msg_id |-> 0, messages |-> <<>>,
          title |-> <<>>, chat_history |-> <<>>,
          sent |-> [called |-> FALSE, history |-> <<>>],
          outcome |-> [kind |-> "none", text |-> <<>>],
          ai_response |-> <<>>, ai_msg_id |-> 0]

NoResp == [handler |-> "", n |-> 0, status |-> 0, detail |-> ""]

Accept(w, cap) == pc[w] \in {"idle", "done"} /\ nReq < cap

NewReq(handler, path) ==
    [NoReq EXCEPT !.handler = handler, !.n = nReq + 1, !.path = path]

Respond(w, r, status, detail) ==
    /\ pc' = [pc EXCEPT ![w] = "done"]
    /\ req' = [req EXCEPT ![w] = r]
    /\ resp' = [resp EXCEPT ![w] =
                  [handler |-> r.handler, n |-> r.n, status |-> status, detail |-> detail]]

Goto(w, r, label) ==
    /\ pc' = [pc EXCEPT ![w] = label]
    /\ req' = [req EXCEPT ![w] = r]
    /\ UNCHANGED resp

Env == <<dialect, configured, fmtIn, fmtOut>>

-----------------------------------------------------------------------------
(* POST /api/sessions *)

create_session(w, cap, ids) ==
    /\ Accept(w, cap)
    /\ NextSessionId \in ids
    /\ Dispatch("POST", <<"api", "sessions">>) = "create_session"
    /\ LET id == NextSessionId IN
        /\ sessions' = InsertSession(sessions, id)
        /\ created' = created + 1
        /\ nReq' = nReq + 1
        /\ Respond(w, [NewReq("create_session", <<"api", "sessions">>)
                         EXCEPT !.session_id = id], 201, "")
    /\ UNCHANGED <<msgs, msgSeq, Env>>

-----------------------------------------------------------------------------
(* GET /api/sessions/{session_id} and GET /api/sessions/latest *)

\* get_session: session_id arrives as the text of the path segment
get_session(w, seg) ==
    /\ UNCHANGED <<sessions, created>>
    /\ IF ~IsIntText(seg)
       THEN Respond(w, NewReq("get_session", <<"api", "sessions", seg>>), 422, "int_parsing")
       ELSE LET sid == IntOfText(seg)
                r == [NewReq("get_session", <<"api", "sessions", seg>>)
                        EXCEPT !.session_id = sid] IN
            IF sid \notin DOMAIN sessions
            THEN Respond(w, r, 404, "Session not found")
            ELSE Respond(w, [r EXCEPT !.messages = SessionMessages(sid),
                                      !.title = sessions[sid].title], 200, "")

\* order_by(desc(ChatSession.timestamp)).first()
LatestSession(tbl) ==
    CHOOSE i \in DOMAIN tbl : \A j \in DOMAIN tbl : tbl[j].timestamp <= tbl[i].timestamp

get_latest_session(w) ==
    LET tbl == IF DOMAIN sessions = {}
               THEN InsertSession(sessions, NextSessionId) ELSE sessions
        sid == LatestSession(tbl) IN
    /\ sessions' = tbl
    /\ created' = IF DOMAIN sessions = {} THEN created + 1 ELSE created
    /\ Respond(w, [NewReq("get_latest_session", <<"api", "sessions", "latest">>) EXCEPT
                     !.session_id = sid, !.messages = SessionMessages(sid),
                     !.title = tbl[sid].title], 200, "")

\* A GET request for a path of three segments, handled by whichever route
\* the table selects.
http_get(w, cap, seg) ==
    /\ Accept(w, cap)
    /\ nReq' = nReq + 1
    /\ LET handler == Dispatch("GET", <<"api", "sessions", seg>>) IN
       IF handler = "get_latest_session" THEN get_latest_session(w)
       ELSE IF handler = "get_session" THEN get_session(w, seg)
       ELSE /\ Respond(w, NewReq(handler, <<"api", "sessions", seg>>), 404, "Not Found")
            /\ UNCHANGED <<sessions, created>>
    /\ UNCHANGED <<msgs, msgSeq, Env>>

-----------------------------------------------------------------------------
(* DELETE /api/sessions/{session_id} *)

\* lines 218-223: look the session up, mark it deleted
delete_session(w, cap, sid) ==
    /\ Accept(w, cap)
    /\ Dispatch("DELETE", SessionPath(sid)) = "delete_session"
    /\ nReq' = nReq + 1
    /\ LET r == [NewReq("delete_session", SessionPath(sid)) EXCEPT !.session_id = sid] IN
       IF sid \notin DOMAIN sessions
       THEN Respond(w, r, 404, "Session not found")
       ELSE Goto(w, r, "delete_commit")
    /\ UNCHANGED <<sessions, msgs, created, msgSeq, Env>>

\* line 224: the flush loads session.messages, deletes them and the session
delete_commit(w) ==
    /\ pc[w] = "delete_commit"
    /\ DeleteCascade(req[w].session_id)
    /\ Respond(w, req[w], 200, "Session deleted")
    /\ UNCHANGED <<created, msgSeq, nReq, Env>>

-----------------------------------------------------------------------------
(* ai_service.py: ChatbotAI *)

HistoryLimit == 10
TitleLimit == 50

\* The four fixed replies of generate_response.  Nothing in the program looks
\* inside them, so each is written as a text of one element.
NotConfiguredReply ==
    <<"Gemini API is not configured. Please check your API key and server logs.">>
ApiKeyReply == <<"API key error. Please check your Gemini API key configuration.">>
QuotaReply == <<"API quota exceeded. Please try again later.">>
GenericReply == <<"I apologize, but I encountered an error processing your request.">>

\* dict.get(key, default)
Get(d, key, default) == IF key \in DOMAIN d THEN d[key] ELSE default

\* Variant: the role is passed on as stored.
format_role_mut(msg) == Get(msg, "role", "user")

format_role(msg) ==
    LET role == Get(msg, "role", "user") IN
    IF role = "assistant" THEN "model" ELSE role

\* _format_chat_history
format_chat_history(chat_history) ==
    [i \in 1..Len(chat_history) |->
        [role |-> format_role(chat_history[i]),
         parts |-> <<Get(chat_history[i], "content", <<>>)>>]]

\* Variant: chat_history[:10]
LastN_mut(s, n) == SubSeq(s, 1, IF Len(s) > n THEN n ELSE Len(s))

\* chat_history[-10:]
LastN(s, n) == SubSeq(s, IF Len(s) > n THEN Len(s) - n + 1 ELSE 1, Len(s))

\* lines 111-117: the history handed to model.start_chat
provider_history(chat_history) ==
    IF chat_history # <<>>
    THEN format_chat_history(LastN(chat_history, HistoryLimit))
    ELSE <<>>

ApiKeyText == <<"A","P","I"," ","k","e","y">>
QuotaText == <<"q","u","o","t","a">>

\* Variant: "quota" is looked for in str(e) as it is, not in its lower case.
classify_error_mut(description) ==
    IF Contains(ApiKeyText, description) THEN ApiKeyReply
    ELSE IF Contains(QuotaText, description) THEN QuotaReply
    ELSE GenericReply

\* lines 124-133: the reply for an exception whose str(e) is description
classify_error(description) ==
    IF Contains(ApiKeyText, description) THEN ApiKeyReply
    ELSE IF Contains(QuotaText, Lower(description)) THEN QuotaReply
    ELSE GenericReply

\* generate_response; outcome is what the provider does when it is called:
\* it returns response.text, or raises an exception with a description.
generate_response(user_message, chat_history, outcome) ==
    IF ~configured
    THEN [text |-> NotConfiguredReply,
          sent |-> [called |-> FALSE, history |-> <<>>],
          outcome |-> [kind |-> "none", text |-> <<>>]]
    ELSE [text |-> IF outcome.kind = "text"
                   THEN Strip(outcome.text) ELSE classify_error(outcome.text),
          sent |-> [called |-> TRUE, history |-> provider_history(chat_history)],
          outcome |-> outcome]

-----------------------------------------------------------------------------
(* POST /api/chat *)

\* Message.to_dict (the timestamp is left out)
to_dict(m) == [id |-> m.id, session_id |-> m.session_id, role |-> m.role,
               content |-> m.content]

\* Variant: the ellipsis is added from the limit on, not beyond it.
derive_title_mut(user_message) ==
    Take(user_message, TitleLimit)
        \o (IF Len(user_message) >= TitleLimit THEN <<".", ".", ".">> ELSE <<>>)

\* line 195
derive_title(user_message) ==
    Take(user_message, TitleLimit)
        \o (IF Len(user_message) > TitleLimit THEN <<".", ".", ".">> ELSE <<>>)

\* Variant: the user message is stored before the session is looked up.
chat_mut(w, cap, sid, raw) ==
    /\ Accept(w, cap)
    /\ nReq' = nReq + 1
    /\ LET r == [NewReq("chat", <<"api", "chat">>) EXCEPT
                    !.session_id = sid, !.raw = raw, !.user_message = Strip(raw)] IN
       IF r.user_message = <<>>
       THEN /\ Respond(w, r, 400, "Message cannot be empty")
            /\ UNCHANGED <<msgs, msgSeq>>
       ELSE IF sid \notin DOMAIN sessions
       THEN /\ msgs' = Append(msgs, Message(NextMessageId, sid, "user", r.user_message))
            /\ msgSeq' = msgSeq + 1
            /\ Respond(w, r, 404, "Session not found")
       ELSE /\ Goto(w, [r EXCEPT !.title = sessions[sid].title], "chat_save_user")
            /\ UNCHANGED <<msgs, msgSeq>>
    /\ UNCHANGED <<sessions, created, Env>>

\* lines 159-168: trim, validate, look the session up
chat(w, cap, sid, raw) ==
    /\ Accept(w, cap)
    /\ Dispatch("POST", <<"api", "chat">>) = "chat"
    /\ nReq' = nReq + 1
    /\ LET r == [NewReq("chat", <<"api", "chat">>) EXCEPT
                    !.session_id = sid, !.raw = raw, !.user_message = Strip(raw)] IN
       IF r.user_message = <<>>
       THEN Respond(w, r, 400, "Message cannot be empty")
       ELSE IF sid \notin DOMAIN sessions
       THEN Respond(w, r, 404, "Session not found")
       ELSE Goto(w, [r EXCEPT !.title = sessions[sid].title], "chat_save_user")
    /\ UNCHANGED <<sessions, msgs, created, msgSeq, Env>>

\* lines 171-177: insert the user message and commit
chat_save_user(w) ==
    /\ pc[w] = "chat_save_user"
    /\ LET r == req[w]
           id == NextMessageId IN
       IF ForeignKeysEnforced /\ r.session_id \notin DOMAIN sessions
       THEN /\ Respond(w, r, 500, "IntegrityError")
            /\ UNCHANGED <<msgs, msgSeq>>
       ELSE /\ msgs' = Append(msgs, Message(id, r.session_id, "user", r.user_message))
            /\ msgSeq' = IF dialect = "sqlite" THEN msgSeq ELSE msgSeq + 1
            /\ Goto(w, [r EXCEPT !.user_msg_id = id], "chat_load")
    /\ UNCHANGED <<sessions, created, nReq, Env>>

\* line 180: the commit expired the session object; reading session.messages
\* reloads the session row and its messages
chat_load(w) ==
    /\ pc[w] = "chat_load"
    /\ LET r == req[w] IN
       IF r.session_id \notin DOMAIN sessions
       THEN Respond(w, r, 500, "ObjectDeletedError")
       ELSE LET messages == SessionMessages(r.session_id) IN
            Goto(w, [r EXCEPT !.messages = messages,
                              !.title = sessions[r.session_id].title,
                              !.chat_history =
                                  [i \in 1..(Len(messages) - 1) |-> to_dict(messages[i])]],
                 "chat_generate")
    /\ UNCHANGED <<sessions, msgs, created, msgSeq, nReq, Env>>

\* line 183
chat_generate(w, outcome) ==
    /\ pc[w] = "chat_generate"
    /\ LET r == req[w]
           g == generate_response(r.user_message, r.chat_history, outcome) IN
       Goto(w, [r EXCEPT !.ai_response = g.text, !.sent = g.sent,
                         !.outcome = g.outcome], "chat_save_ai")
    /\ UNCHANGED <<sessions, msgs, created, msgSeq, nReq, Env>>

\* lines 186-197: insert the reply, set the title on the first turn, commit
chat_save_ai(w) ==
    /\ pc[w] = "chat_save_ai"
    /\ LET r == req[w]
           id == NextMessageId
           title == IF Len(r.messages) = 1 THEN derive_title(r.user_message) ELSE r.title
           gone == r.session_id \notin DOMAIN sessions IN
       IF title # r.title /\ gone
       THEN /\ Respond(w, r, 500, "StaleDataError")
            /\ UNCHANGED <<sessions, msgs, msgSeq>>
       ELSE IF ForeignKeysEnforced /\ gone
       THEN /\ Respond(w, r, 500, "IntegrityError")
            /\ UNCHANGED <<sessions, msgs, msgSeq>>
       ELSE /\ msgs' = Append(msgs, Message(id, r.session_id, "assistant", r.ai_response))
            /\ msgSeq' = IF dialect = "sqlite" THEN msgSeq ELSE msgSeq + 1
            /\ sessions' = IF title # r.title
                           THEN [sessions EXCEPT ![r.session_id].title = title]
                           ELSE sessions
            /\ Goto(w, [r EXCEPT !.ai_msg_id = id, !.title = title], "chat_refresh")
    /\ UNCHANGED <<created, nReq, Env>>

\* lines 198-204: reload both rows by primary key and answer
chat_refresh(w) ==
    /\ pc[w] = "chat_refresh"
    /\ IF RowExists(req[w].user_msg_id) /\ RowExists(req[w].ai_msg_id)
       THEN Respond(w, req[w], 200, "")
       ELSE Respond(w, req[w], 500, "InvalidRequestError")
    /\ UNCHANGED <<sessions, msgs, created, msgSeq, nReq, Env>>

\* A database statement of the handler raises (connection lost, database
\* locked): the except branch rolls the open transaction back and answers 500.
\* What earlier commits stored stays.
\* Variant: the rollback also takes back the user message.
rollback_mut(w) ==
    /\ Respond(w, req[w], 500, "OperationalError")
    /\ msgs' = SelectSeq(msgs, LAMBDA m : m.id # req[w].user_msg_id)
    /\ UNCHANGED sessions

rollback(w) ==
    /\ Respond(w, req[w], 500, "OperationalError")
    /\ UNCHANGED <<sessions, msgs>>

storage_error(w) ==
    /\ pc[w] \in {"chat_save_user", "chat_load", "chat_save_ai", "chat_refresh",
                  "delete_commit"}
    /\ rollback(w)
    /\ UNCHANGED <<created, msgSeq, nReq, Env>>

\* The same for the first statement of a handler: the commit of create_session
\* (line 91), the session lookup of chat (line 166) and of delete_session
\* (line 218).
request_error(w, cap, handler, sid) ==
    /\ Accept(w, cap)
    /\ nReq' = nReq + 1
    /\ LET path == IF handler = "create_session" THEN <<"api", "sessions">>
                   ELSE IF handler = "chat" THEN <<"api", "chat">>
                   ELSE SessionPath(sid) IN
       Respond(w, [NewReq(handler, path) EXCEPT
                     !.session_id = IF handler = "create_session" THEN 0 ELSE sid],
               500, "OperationalError")
    /\ UNCHANGED <<sessions, msgs, created, msgSeq, Env>>

-----------------------------------------------------------------------------
(* Inputs *)

Ids == {1, 2}

GetSegments == {Digits[i] : i \in Ids} \cup {"latest"}

Reply == [kind |-> "text", text |-> <<" ", "o", "k", "\n">>]
Raise(description) == [kind |-> "error", text |-> description]

TimeoutError == <<"t","i","m","e","d"," ","o","u","t">>
BadKeyError == <<"4","0","0"," ">> \o ApiKeyText \o <<" ","n","o","t"," ","v","a","l","i","d">>
LowerKeyError == <<"a","p","i"," ","k","e","y"," ","r","e","j","e","c","t","e","d">>
QuotaError == <<"4","2","9"," ","Q","u","o","t","a"," ","e","x","c","e","e","d","e","d">>
KeyQuotaError == <<"Q","U","O","T","A"," ","f","o","r"," ">> \o ApiKeyText

Messages == {<<"h", "i">>, <<" ", "\t">>}
Outcomes == {Reply, Raise(TimeoutError)}

\* One client, varied input: messages around the title limit, with and without
\* surrounding whitespace, and every class of provider failure.
SeqMessages ==
    { <<>>,
      <<" ", "\n">>,
      <<" ", "h", "i", "\r", "\n">>,
      Rep("x", TitleLimit),
      <<"\t">> \o Rep("x", TitleLimit) \o <<" ", " ">>,
      Rep("x", TitleLimit + 1),
      <<" ">> \o Rep("y", TitleLimit - 1) \o <<" ", "z", "\n">> }

SeqOutcomes ==
    { Reply, Raise(TimeoutError), Raise(BadKeyError), Raise(LowerKeyError),
      Raise(QuotaError), Raise(KeyQuotaError) }

\* One client, one long conversation: two messages to tell the turns apart.
LongIds == {1}
LongMessages == {<<"h", "i">>, <<"y", "o">>}
LongOutcomes == {Reply}

\* Arguments of _format_chat_history: dicts with and without a role, with a role
\* outside the two the store uses, with and without a content.
FmtDicts ==
    { [role |-> r, content |-> c] : r \in {"user", "assistant", "system"},
                                    c \in {<<"h", "i">>, <<>>} }
    \cup { [content |-> <<"h", "i">>], [content |-> <<>>], [role |-> "assistant"] }

RECURSIVE ListsUpTo(_, _)
ListsUpTo(S, n) ==
    IF n = 0 THEN {<<>>}
    ELSE LET shorter == ListsUpTo(S, n - 1) IN
         shorter \cup {Append(l, x) : l \in {k \in shorter : Len(k) = n - 1}, x \in S}

-----------------------------------------------------------------------------
(* Concurrent requests *)

NoFmt == [done |-> FALSE, value |-> <<>>]

Init ==
    /\ dialect \in {"sqlite", "postgresql"}
    /\ configured \in BOOLEAN
    /\ sessions = <<>>
    /\ msgs = <<>>
    /\ created = 0
    /\ msgSeq = 0
    /\ nReq = 0
    /\ pc = [w \in Workers |-> "idle"]
    /\ req = [w \in Workers |-> NoReq]
    /\ resp = [w \in Workers |-> NoResp]
    /\ fmtIn = <<>>
    /\ fmtOut = NoFmt

Next ==
    \E w \in Workers :
        \/ create_session(w, MaxRequests, Ids)
        \/ \E seg \in GetSegments : http_get(w, MaxRequests, seg)
        \/ \E sid \in Ids : delete_session(w, MaxRequests, sid)
        \/ delete_commit(w)
        \/ \E sid \in Ids, raw \in Messages : chat(w, MaxRequests, sid, raw)
        \/ chat_save_user(w)
        \/ chat_load(w)
        \/ \E outcome \in Outcomes : chat_generate(w, outcome)
        \/ chat_save_ai(w)
        \/ chat_refresh(w)
        \/ storage_error(w)
        \/ \E handler \in {"create_session", "chat", "delete_session"}, sid \in Ids :
              request_error(w, MaxRequests, handler, sid)

Spec == Init /\ [][Next]_vars

-----------------------------------------------------------------------------
(* One client at a time *)

NextSeq ==
    \E w \in Client :
        \/ create_session(w, MaxSeqRequests, Ids)
        \/ \E sid \in Ids : delete_session(w, MaxSeqRequests, sid)
        \/ delete_commit(w)
        \/ \E sid \in Ids, raw \in SeqMessages : chat(w, MaxSeqRequests, sid, raw)
        \/ chat_save_user(w)
        \/ chat_load(w)
        \/ \E outcome \in SeqOutcomes : chat_generate(w, outcome)
        \/ chat_save_ai(w)
        \/ chat_refresh(w)
        \/ storage_error(w)
        \/ \E handler \in {"create_session", "chat", "delete_session"}, sid \in Ids :
              request_error(w, MaxSeqRequests, handler, sid)

SpecSeq == Init /\ [][NextSeq]_vars

NextLong ==
    \E w \in Client :
        \/ create_session(w, MaxLongRequests, LongIds)
        \/ \E sid \in LongIds, raw \in LongMessages : chat(w, MaxLongRequests, sid, raw)
        \/ chat_save_user(w)
        \/ chat_load(w)
        \/ \E outcome \in LongOutcomes : chat_generate(w, outcome)
        \/ chat_save_ai(w)
        \/ chat_refresh(w)

SpecLong == Init /\ [][NextLong]_vars

-----------------------------------------------------------------------------
(* _format_chat_history on its own *)

InitFmt ==
    /\ dialect = "sqlite"
    /\ configured \in BOOLEAN
    /\ sessions = <<>>
    /\ msgs = <<>>
    /\ created = 0
    /\ msgSeq = 0
    /\ nReq = 0
    /\ pc = [w \in Workers |-> "idle"]
    /\ req = [w \in Workers |-> NoReq]
    /\ resp = [w \in Workers |-> NoResp]
    /\ fmtIn \in ListsUpTo(FmtDicts, MaxFmtLen)
    /\ fmtOut = NoFmt

format_call ==
    /\ ~fmtOut.done
    /\ fmtOut' = [done |-> TRUE, value |-> format_chat_history(fmtIn)]
    /\ UNCHANGED <<dialect, configured, sessions, msgs, created, msgSeq, nReq, pc, req,
                   resp, fmtIn>>

NextFmt == format_call

SpecFmt == InitFmt /\ [][NextFmt]_vars

-----------------------------------------------------------------------------
(* Properties of concurrent requests *)

InChat(w) == req[w].handler = "chat"

\* C4: every stored message references a session that currently exists, after
\* any interleaving of create-session, chat-turn and delete-session requests.
C4_NoOrphanMessages ==
    \A i \in 1..Len(msgs) : msgs[i].session_id \in DOMAIN sessions

\* C7: a request GET /api/sessions/latest is handled by get_latest_session and
\* answered 200; it is never dispatched to get_session or rejected.
C7_LatestIsServed ==
    \A w \in Workers :
        (resp[w].n > 0 /\ resp[w].n = req[w].n
            /\ req[w].path = <<"api", "sessions", "latest">>)
        => (resp[w].handler = "get_latest_session" /\ resp[w].status = 200)

UserMessagesOf(tbl, sid) ==
    SelectSeq(tbl, LAMBDA m : m.session_id = sid /\ m.role = "user")

\* C8: a session's title is changed from its default at most once, by a chat
\* turn that saw exactly one message in the session after storing its user
\* message, and it is set to a title derived from the session's first user
\* message; every committing turn that saw exactly one message sets it.
C8_TitleSetOnceFromFirstMessage ==
    [][ /\ \A sid \in DOMAIN sessions \cap DOMAIN sessions' :
              sessions'[sid].title # sessions[sid].title =>
                  /\ sessions[sid].title = DefaultTitle
                  /\ \E w \in Workers :
                        /\ pc[w] = "chat_save_ai" /\ pc'[w] = "chat_refresh"
                        /\ req[w].session_id = sid
                        /\ Len(req[w].messages) = 1
                  /\ UserMessagesOf(msgs', sid) # <<>>
                  /\ LET first == UserMessagesOf(msgs', sid)[1].content IN
                     Take(sessions'[sid].title, TitleLimit) = Take(first, TitleLimit)
        /\ \A w \in Workers :
              (pc[w] = "chat_save_ai" /\ pc'[w] = "chat_refresh"
                  /\ Len(req[w].messages) = 1)
              => /\ req[w].session_id \in DOMAIN sessions'
                 /\ Take(sessions'[req[w].session_id].title, TitleLimit)
                        = Take(req[w].user_message, TitleLimit) ]_vars

\* C10: when chat turns on one session interleave, the history a turn passes to
\* the provider holds only messages that precede the turn's own user message:
\* the last loaded message, which is dropped, is the turn's own.
C10_HistoryPrecedesOwnMessage ==
    \A w \in Workers :
        (InChat(w) /\ pc[w] \in {"chat_generate", "chat_save_ai"}
            /\ req[w].messages # <<>>)
        => /\ req[w].messages[Len(req[w].messages)].id = req[w].user_msg_id
           /\ \A i \in 1..Len(req[w].chat_history) :
                 req[w].chat_history[i].id < req[w].user_msg_id

-----------------------------------------------------------------------------
(* Properties of a chat turn, one client at a time *)

Finished(w) == InChat(w) /\ pc[w] = "done" /\ resp[w].n = req[w].n

\* C1: a chat turn that fails after its user message was committed and before
\* its assistant message and title were, leaves the user message stored in the
\* session and no assistant message for the turn: the session's messages end
\* with that user message.
C1_FailedTurnKeepsUserMessage ==
    \A w \in Workers :
        (Finished(w) /\ resp[w].status = 500
            /\ req[w].user_msg_id # 0 /\ req[w].ai_msg_id = 0)
        => LET stored == SessionMessages(req[w].session_id) IN
           /\ stored # <<>>
           /\ stored[Len(stored)] =
                  Message(req[w].user_msg_id, req[w].session_id, "user", req[w].user_message)

\* The turn failed at the commit of the reply, after the provider had answered.
C1_Witness ==
    \E w \in Workers :
        /\ Finished(w) /\ resp[w].status = 500
        /\ req[w].user_msg_id # 0 /\ req[w].ai_msg_id = 0
        /\ req[w].ai_response # <<>>
        /\ Len(SessionMessages(req[w].session_id)) = 3

\* t is s without its leading and trailing whitespace
IsTrimOf(t, s) ==
    /\ t # <<>> => (t[1] \notin Whitespace /\ t[Len(t)] \notin Whitespace)
    /\ \E i \in 0..Len(s) :
          /\ i + Len(t) <= Len(s)
          /\ SubSeq(s, i + 1, i + Len(t)) = t
          /\ \A k \in 1..i : s[k] \in Whitespace
          /\ \A k \in (i + Len(t) + 1)..Len(s) : s[k] \in Whitespace

\* title is the first 50 characters of t, followed by "..." iff t is longer
IsTitleOf(title, t) ==
    IF Len(t) <= 50
    THEN title = t
    ELSE /\ Len(title) = 53
         /\ \A k \in 1..50 : title[k] = t[k]
         /\ \A k \in 51..53 : title[k] = "."

\* C3: a session that holds exactly 2 messages after a completed chat turn (its
\* first turn) has as title the first 50 characters of the trimmed user message,
\* followed by "..." if and only if the trimmed message is longer than 50.
C3_FirstTurnTitle ==
    /\ \A sid \in DOMAIN sessions :
          LET stored == SessionMessages(sid) IN
          (Len(stored) = 2 /\ stored[2].role = "assistant")
          => IsTitleOf(sessions[sid].title, stored[1].content)
    /\ \A w \in Workers :
          (Finished(w) /\ resp[w].status = 200
              /\ Len(SessionMessages(req[w].session_id)) = 2)
          => /\ IsTrimOf(SessionMessages(req[w].session_id)[1].content, req[w].raw)
             /\ req[w].session_id \in DOMAIN sessions

\* A first turn whose message had whitespace around more than 50 characters.
C3_Witness ==
    \E w \in Workers :
        /\ Finished(w) /\ resp[w].status = 200
        /\ Len(SessionMessages(req[w].session_id)) = 2
        /\ Len(req[w].raw) > Len(req[w].user_message)
        /\ Len(sessions[req[w].session_id].title) = 53

\* C5: a chat request answered 400 or 404 leaves the store unchanged: no message
\* is added and no session is created, deleted or retitled.
C5_RejectedChatChangesNothing ==
    [][ \A w \in Workers :
          (req'[w].n # req[w].n /\ req'[w].handler = "chat"
              /\ resp'[w].n = req'[w].n /\ resp'[w].status \in {400, 404})
          => (sessions' = sessions /\ msgs' = msgs) ]_vars

\* A non-empty message for a session that does not exist, answered 404 while
\* the store holds messages.
C5_Witness ==
    \E w \in Workers :
        /\ Finished(w) /\ resp[w].status = 404
        /\ req[w].user_message # <<>>
        /\ msgs # <<>>

\* The reply the spec names for each way the provider can fail
ExpectedReply(w) ==
    IF ~configured THEN NotConfiguredReply
    ELSE IF req[w].outcome.text \in {BadKeyError, KeyQuotaError} THEN ApiKeyReply
    ELSE IF req[w].outcome.text = QuotaError THEN QuotaReply
    ELSE GenericReply

Degraded(w) == ~configured \/ req[w].outcome.kind = "error"

\* C6: when the completion client is unconfigured or the provider call fails, a
\* chat turn on an existing session with a non-empty message is not failed by
\* it: the reply is the fixed diagnostic of the case, a turn answered 200 has
\* stored the user message and an assistant message with that diagnostic, and
\* the only 500 is a storage error.
C6_ProviderFailureIsAbsorbed ==
    \A w \in Workers :
        InChat(w) =>
            /\ (pc[w] \in {"chat_save_ai", "chat_refresh"} /\ Degraded(w))
               => req[w].ai_response = ExpectedReply(w)
            /\ (Finished(w) /\ resp[w].status = 200 /\ Degraded(w))
               => LET stored == SessionMessages(req[w].session_id)
                      n == Len(stored) IN
                  /\ n >= 2
                  /\ stored[n - 1] = Message(req[w].user_msg_id, req[w].session_id,
                                             "user", req[w].user_message)
                  /\ stored[n] = Message(req[w].ai_msg_id, req[w].session_id,
                                         "assistant", ExpectedReply(w))
            /\ (Finished(w) /\ resp[w].status = 500)
               => resp[w].detail = "OperationalError"

\* A turn answered 200 whose provider call failed on its quota.
C6_Witness ==
    \E w \in Workers :
        /\ Finished(w) /\ resp[w].status = 200
        /\ req[w].outcome = Raise(QuotaError)
        /\ req[w].ai_response = QuotaReply

-----------------------------------------------------------------------------
(* Properties of a long conversation *)

\* The messages of the turn's session stored before the turn's user message
Prior(w) ==
    SelectSeq(msgs, LAMBDA m : m.session_id = req[w].session_id
                               /\ m.id < req[w].user_msg_id)

Min(a, b) == IF a < b THEN a ELSE b

\* C2: in a sequence of chat turns on a session, the history that reaches the
\* provider has length min(10, number of messages stored before the turn's user
\* message), holds the most recent of them in stored order, and never the user
\* message the turn just stored.
C2_HistoryWindow ==
    \A w \in Workers :
        (InChat(w) /\ req[w].sent.called) =>
            LET prior == Prior(w)
                n == Len(prior)
                k == Min(10, n)
                history == req[w].sent.history
                passed == req[w].chat_history IN
            /\ Len(passed) = n
            /\ \A i \in 1..n : passed[i].id = prior[i].id
            /\ Len(history) = k
            /\ \A i \in 1..k :
                  /\ history[i].parts = <<prior[n - k + i].content>>
                  /\ history[i].role =
                        (IF prior[n - k + i].role = "assistant" THEN "model" ELSE "user")

\* The 12th turn after 11 complete ones: 10 of the 22 prior messages are sent.
C2_Witness ==
    \E w \in Workers :
        /\ InChat(w) /\ req[w].sent.called
        /\ Len(Prior(w)) = 22
        /\ Len(req[w].sent.history) = 10
        /\ Prior(w)[13].content # Prior(w)[1].content

-----------------------------------------------------------------------------
(* Properties of _format_chat_history *)

FormattedInOrder ==
    /\ Len(fmtOut.value) = Len(fmtIn)
    /\ \A i \in 1..Len(fmtIn) :
          fmtOut.value[i].parts =
              <<IF "content" \in DOMAIN fmtIn[i] THEN fmtIn[i].content ELSE <<>> >>

=============================================================================
